---- MODULE Spec2Model ----
(***************************************************************************)
(* Model of fmridenoise/interfaces/bids.py: the BIDSGrab interface, which  *)
(* queries a BIDS index for preprocessed functional files, their confound  *)
(* tables and the repetition time of every task, and the BIDSDataSink      *)
(* interface, which copies files into the derivatives tree.                *)
(***************************************************************************)
EXTENDS Integers, Sequences, FiniteSets, TLC

VARIABLES
    layout,       \* BIDSLayout: the indexed files, in index order
    inTask,       \* self.inputs.task (<<>> is Undefined)
    pc,           \* position of the running interface
    err,          \* the exception that aborted the call, if any
    task,         \* resolved task list
    pending,      \* functional files still to iterate (line 103)
    filter_conf,  \* the confound query filter dict (lines 94-98, 111)
    fmri_prep,    \* local result list
    conf_raw,     \* local result list
    entities,     \* local result list
    grabLog,      \* one record per confound query issued (line 113)
    warnings,     \* what print() wrote (lines 122-125)
    tr_dict,      \* local task -> TR dict
    results,      \* self._results
    nGet,         \* number of layout.get file queries issued
    in_file,      \* BIDSDataSink.inputs.in_file
    in_entities,  \* BIDSDataSink.inputs.entities
    fs,           \* file system: path -> content
    dirs,         \* directories created by os.makedirs
    out_files,    \* local list of destination paths
    copyLog,      \* positions whose file has been copied, in order
    pipeline_name,\* BIDSDataSink.inputs.pipeline_name
    ret           \* the dict returned by _list_outputs (<<>> before return)

vars == <<layout, inTask, pc, err, task, pending, filter_conf, fmri_prep,
          conf_raw, entities, grabLog, warnings, tr_dict, results, nGet,
          in_file, in_entities, fs, dirs, out_files, copyLog,
          pipeline_name, ret>>

grabVars == <<layout, inTask, task, pending, filter_conf, fmri_prep,
              conf_raw, entities, grabLog, warnings, tr_dict, results, nGet>>

sinkVars == <<in_file, in_entities, fs, dirs, out_files, copyLog,
              pipeline_name, ret>>

\* ---------------------------------------------------------------- bounds
MaxFunc == 3      \* preprocessed functional files in a dataset
MaxConf == 2      \* confound files in a dataset
MaxTaskIn == 2    \* length of the task input
MaxIn == 3        \* length of in_file
MaxEnt == 3       \* length of the sink's entities input

\* --------------------------------------------------------------- helpers
Range(s) == {s[i] : i \in DOMAIN s}

Min(a, b) == IF a <= b THEN a ELSE b

SeqsUpTo(S, n) == UNION {[1..k -> S] : k \in 0..n}

InjSeqsUpTo(S, n) ==
    {s \in SeqsUpTo(S, n) : \A i, j \in DOMAIN s : s[i] = s[j] => i = j}

NoErr == [type |-> "none", arg |-> <<>>]

\* dict.update(e) applied to d
DictUpdate(d, e) ==
    [k \in DOMAIN d \cup DOMAIN e |-> IF k \in DOMAIN e THEN e[k] ELSE d[k]]

\* ------------------------------------------------------ the indexed files
Subjects == {"01", "02"}
NoSes == "-"                      \* the file name has no ses- part
Sessions == {NoSes, "1"}
TaskOrder == <<"nback", "rest">>  \* task names, in sorted order
TaskNames == Range(TaskOrder)
Runs == {"1", "2"}
Scope == {"fmriprep"}             \* scope list built in lines 55-68
AllScopes == {"fmriprep", "raw"}  \* layout.get without scope

Opt(key, val, absent) == IF val = absent THEN <<>> ELSE key :> val

\* The entities pybids parses from a file name.
MkEntities(sub, ses, tsk, run, desc, suffix, ext) ==
    [subject |-> sub, datatype |-> "func", task |-> tsk,
     suffix |-> suffix, extension |-> ext]
      @@ Opt("session", ses, NoSes) @@ Opt("run", run, "-")
      @@ Opt("desc", desc, "-")

MkFile(scope, sub, ses, tsk, run, desc, suffix, ext, tr) ==
    [path |-> <<scope, sub, ses, tsk, run, desc, suffix, ext>>,
     scope |-> scope,
     entities |-> MkEntities(sub, ses, tsk, run, desc, suffix, ext),
     tr |-> tr]

PreprocFile(sub, ses, tsk, run, tr) ==
    MkFile("fmriprep", sub, ses, tsk, run, "preproc", "bold", "nii.gz", tr)

ConfFile(sub, ses, tsk, run) ==
    MkFile("fmriprep", sub, ses, tsk, run, "confounds", "regressors", "tsv", 0)

RawFile(tsk) ==
    MkFile("raw", "01", NoSes, tsk, "-", "-", "bold", "nii.gz", 3)

\* BIDSFile lookup by path
FileAt(lay, path) == CHOOSE f \in Range(lay) : f.path = path

\* ------------------------------------------------------- index queries
\* A file passes a filter when it carries every filtered entity with one of
\* the admitted values.
Matches(f, filter) ==
    \A k \in DOMAIN filter :
        k \in DOMAIN f.entities /\ f.entities[k] \in filter[k]

\* layout.get(scope=scope, **filter): matching files in index order
Get(lay, scope, filter) ==
    SelectSeq(lay, LAMBDA f : f.scope \in scope /\ Matches(f, filter))

\* layout.get_tasks(): the sorted task names of all indexed files
get_tasks(lay) ==
    SelectSeq(TaskOrder,
              LAMBDA t : \E f \in Range(lay) : f.entities["task"] = t)

\* layout.get_metadata(path)['RepetitionTime']
RepetitionTime(lay, path) == FileAt(lay, path).tr

\* ------------------------------------------------------ BIDSGrab pieces
keys_entities == {"subject", "session", "datatype", "task"}

filter_fmri(tsk) ==
    [extension |-> {"nii", "nii.gz"}, suffix |-> {"bold"},
     desc |-> {"preproc"}, task |-> Range(tsk)]

filter_conf_init ==
    [extension |-> {"tsv"}, suffix |-> {"regressors"},
     desc |-> {"confounds"}]

\* lines 108-110
FilterEntities(entity_bold) ==
    [k \in DOMAIN entity_bold \cap keys_entities |-> entity_bold[k]]

Listify(d) == [k \in DOMAIN d |-> {d[k]}]

\* lines 111-112: filter_conf.update(filter_entities)
UpdatedFilter(fc, filter_entities) ==
    DictUpdate(fc, Listify(filter_entities))

SelectLast(conf_file) == conf_file[Len(conf_file)]

\* line 127
SelectConf(conf_file) == conf_file[1]

\* lines 121-125: the text printed when several regressors are found
WarningFor(fmri_file, conf_file) ==
    IF Len(conf_file) > 1
    THEN <<[file |-> fmri_file.path, names |-> {conf_file[1].path}]>>
    ELSE <<>>

FirstAbsent(tsk, known) ==
    LET bad == {i \in DOMAIN tsk : tsk[i] \notin Range(known)}
    IN  IF bad = {} THEN 0 ELSE CHOOSE i \in bad : \A j \in bad : i <= j

UncheckedTask(inp, known) ==
    IF inp = <<>> THEN [ok |-> TRUE, task |-> known, bad |-> <<>>]
    ELSE [ok |-> TRUE, task |-> inp, bad |-> <<>>]

\* lines 77-84
ResolveTask(inp, known) ==
    IF inp = <<>>
    THEN [ok |-> TRUE, task |-> known, bad |-> <<>>]
    ELSE IF FirstAbsent(inp, known) # 0
         THEN [ok |-> FALSE, task |-> <<>>,
               bad |-> <<inp[FirstAbsent(inp, known)]>>]
         ELSE [ok |-> TRUE, task |-> inp, bad |-> <<>>]

ExampleAnyTask(lay, tsk, t) == Get(lay, AllScopes, filter_fmri(tsk))

\* lines 138-141: layout.get(**filter_fmri_tr)
ExampleFiles(lay, tsk, t) ==
    Get(lay, AllScopes, [filter_fmri(tsk) EXCEPT !.task = {t}])

\* ----------------------------------------------------- BIDSGrab actions
\* lines 76-84
ResolveTasks ==
    /\ pc = "start"
    /\ LET r == ResolveTask(inTask, get_tasks(layout))
       IN  IF r.ok
           THEN /\ task' = r.task
                /\ pc' = "query"
                /\ err' = err
           ELSE /\ err' = [type |-> "ValueError", arg |-> r.bad]
                /\ pc' = "failed"
                /\ task' = task
    /\ UNCHANGED <<layout, inTask, pending, filter_conf, fmri_prep, conf_raw,
                   entities, grabLog, warnings, tr_dict, results, nGet>>
    /\ UNCHANGED sinkVars

\* lines 86-103: the functional query
QueryFunctional ==
    /\ pc = "query"
    /\ pending' = Get(layout, Scope, filter_fmri(task))
    /\ filter_conf' = filter_conf_init
    /\ nGet' = nGet + 1
    /\ pc' = "grab"
    /\ UNCHANGED <<layout, inTask, err, task, fmri_prep, conf_raw, entities,
                   grabLog, warnings, tr_dict, results>>
    /\ UNCHANGED sinkVars

\* lines 103-131: one iteration of the loop over the functional files
GrabFile ==
    /\ pc = "grab"
    /\ pending # <<>>
    /\ LET fmri_file == Head(pending)
           filter_entities == FilterEntities(fmri_file.entities)
           fc == UpdatedFilter(filter_conf, filter_entities)
           conf_file == Get(layout, Scope, fc)
       IN  /\ filter_conf' = fc
           /\ nGet' = nGet + 1
           /\ grabLog' = Append(grabLog,
                  [file |-> fmri_file.path, filter |-> fc,
                   found |-> [i \in DOMAIN conf_file |-> conf_file[i].path]])
           /\ IF conf_file = <<>>
              THEN /\ err' = [type |-> "FileNotFoundError",
                              arg |-> <<fmri_file.path>>]
                   /\ pc' = "failed"
                   /\ UNCHANGED <<pending, fmri_prep, conf_raw, entities,
                                  warnings>>
              ELSE /\ warnings' = warnings \o WarningFor(fmri_file, conf_file)
                   /\ fmri_prep' = Append(fmri_prep, fmri_file.path)
                   /\ conf_raw' = Append(conf_raw, SelectConf(conf_file).path)
                   /\ entities' = Append(entities, filter_entities)
                   /\ pending' = Tail(pending)
                   /\ UNCHANGED <<pc, err>>
    /\ UNCHANGED <<layout, inTask, task, tr_dict, results>>
    /\ UNCHANGED sinkVars

NoExample(lay, tsk) ==
    {i \in DOMAIN tsk : ExampleFiles(lay, tsk, tsk[i]) = <<>>}

TRDictUpTo(lay, tsk, n) ==
    [t \in {tsk[i] : i \in 1..n} |->
        RepetitionTime(lay, ExampleFiles(lay, tsk, t)[1].path)]

SkippingTRs(lay, tsk) ==
    [ok |-> TRUE, bad |-> <<>>, n |-> Len(tsk),
     tr_dict |-> [t \in {tsk[i] : i \in DOMAIN tsk \ NoExample(lay, tsk)} |->
                     RepetitionTime(lay, ExampleFiles(lay, tsk, t)[1].path)]]

\* lines 133-143: the loop over the resolved tasks; [0] of an empty query
\* result raises IndexError
ExtractTRsOf(lay, tsk) ==
    IF NoExample(lay, tsk) = {}
    THEN [ok |-> TRUE, bad |-> <<>>, n |-> Len(tsk),
          tr_dict |-> TRDictUpTo(lay, tsk, Len(tsk))]
    ELSE LET i == CHOOSE i \in NoExample(lay, tsk) :
                      \A j \in NoExample(lay, tsk) : i <= j
         IN  [ok |-> FALSE, bad |-> <<tsk[i]>>, n |-> i,
              tr_dict |-> TRDictUpTo(lay, tsk, i - 1)]

ExtractTRs ==
    /\ pc = "grab"
    /\ pending = <<>>
    /\ LET r == ExtractTRsOf(layout, task)
       IN  /\ tr_dict' = r.tr_dict
           /\ nGet' = nGet + r.n
           /\ IF r.ok
              THEN pc' = "tr_done" /\ err' = err
              ELSE /\ pc' = "failed"
                   /\ err' = [type |-> "IndexError", arg |-> r.bad]
    /\ UNCHANGED <<layout, inTask, task, pending, filter_conf, fmri_prep,
                   conf_raw, entities, grabLog, warnings, results>>
    /\ UNCHANGED sinkVars

\* lines 145-150
SetResults ==
    /\ pc = "tr_done"
    /\ results' = [fmri_prep |-> fmri_prep, conf_raw |-> conf_raw,
                   entities |-> entities, tr_dict |-> tr_dict]
    /\ pc' = "done"
    /\ UNCHANGED <<layout, inTask, err, task, pending, filter_conf, fmri_prep,
                   conf_raw, entities, grabLog, warnings, tr_dict, nGet>>
    /\ UNCHANGED sinkVars

\* ---------------------------------------------------- BIDSGrab datasets
SinkIdle ==
    /\ in_file = <<>>
    /\ in_entities = <<>>
    /\ fs = <<>>
    /\ dirs = {}
    /\ out_files = <<>>
    /\ copyLog = <<>>
    /\ pipeline_name = "none"
    /\ ret = <<>>

GrabStart ==
    /\ pc = "start"
    /\ err = NoErr
    /\ task = <<>>
    /\ pending = <<>>
    /\ filter_conf = filter_conf_init
    /\ fmri_prep = <<>>
    /\ conf_raw = <<>>
    /\ entities = <<>>
    /\ grabLog = <<>>
    /\ warnings = <<>>
    /\ tr_dict = <<>>
    /\ results = <<>>
    /\ nGet = 0

\* Datasets of one task whose subjects may or may not have sessions.
SessionDatasets ==
    {f \o c :
        f \in InjSeqsUpTo({PreprocFile(s, e, "rest", "1", 2) :
                              s \in Subjects, e \in Sessions}, MaxFunc),
        c \in InjSeqsUpTo({ConfFile(s, e, "rest", r) :
                              s \in Subjects, e \in Sessions, r \in Runs},
                          MaxConf)}

RunTRs == {<<"1", 1>>, <<"2", 2>>}

\* Datasets of one subject with several tasks, runs and raw files.
TaskDatasets ==
    {f \o c \o r :
        f \in InjSeqsUpTo({PreprocFile("01", NoSes, t, x[1], x[2]) :
                              t \in TaskNames, x \in RunTRs}, MaxFunc),
        c \in InjSeqsUpTo({ConfFile("01", NoSes, t, r) :
                              t \in TaskNames, r \in Runs}, MaxConf),
        r \in {SelectSeq(<<RawFile("nback"), RawFile("rest")>>,
                         LAMBDA x : x.entities["task"] \in T) :
                  T \in SUBSET TaskNames}}

InitGrab ==
    /\ \/ layout \in SessionDatasets /\ inTask = <<>>
       \/ layout \in TaskDatasets /\ inTask \in SeqsUpTo(TaskNames, MaxTaskIn)
    /\ layout # <<>>
    /\ GrabStart
    /\ SinkIdle

NextGrab == ResolveTasks \/ QueryFunctional \/ GrabFile \/ ExtractTRs
            \/ SetResults

SpecGrab == InitGrab /\ [][NextGrab]_vars

\* ------------------------------------------------- BIDSDataSink pieces
\* A path is a directory (a sequence of components) and a file name (a
\* stem followed by its dot-suffixes).
MkPath(dir, name) == [dir |-> dir, name |-> name]

base_directory == <<"out">>

SourcePaths ==
    {MkPath(<<"tmp1">>, <<"a", ".nii", ".gz">>),
     MkPath(<<"tmp2">>, <<"a", ".nii", ".gz">>),
     MkPath(<<"tmp1">>, <<"b", ".tsv">>)}

Contents == {1, 2}
PipelineNames == {"myproc", "24HMP"}
EntityDicts ==
    {[subject |-> "01", task |-> "rest"], [subject |-> "02"],
     [task |-> "rest"]}

SubSeq1(s, m, n) == [i \in 1..(n - m + 1) |-> s[i + m - 1]]

\* nipype split_filename: '.nii.gz' is one extension, otherwise the last
\* dot-suffix is the extension
split_filename(fname) ==
    LET n == Len(fname.name)
    IN  IF n > 2 /\ SubSeq1(fname.name, n - 1, n) = <<".nii", ".gz">>
        THEN [pth |-> fname.dir, fname |-> SubSeq1(fname.name, 1, n - 2),
              ext |-> <<".nii", ".gz">>]
        ELSE IF n > 1
             THEN [pth |-> fname.dir, fname |-> SubSeq1(fname.name, 1, n - 1),
                   ext |-> <<fname.name[n]>>]
             ELSE [pth |-> fname.dir, fname |-> fname.name, ext |-> <<>>]

\* line 180
SubjectDir(base_dir, sub_num) ==
    base_dir \o <<"derivatives", "fmridenoise", <<"sub-", sub_num>>>>

OutFnameNoExt(path, in_path, pipeline) ==
    MkPath(path, split_filename(in_path).fname \o <<"_pipeline-", pipeline>>)

\* lines 179, 182
OutFname(path, in_path, pipeline) ==
    MkPath(path, split_filename(in_path).fname \o <<"_pipeline-", pipeline>>
                 \o split_filename(in_path).ext)

\* os.makedirs(path, exist_ok=True)
makedirs(ds, path) == ds \cup {SubSeq1(path, 1, k) : k \in 1..Len(path)}

CopyKeepExisting(files, src, dst) ==
    IF dst \in DOMAIN files THEN files ELSE DictUpdate(files, dst :> files[src])

\* line 183: copyfile(in_file, out_fname, copy=True)
copyfile(files, src, dst) == DictUpdate(files, dst :> files[src])

ZipLen(a, b) == Min(Len(a), Len(b))

\* line 177: zip stops at the shorter list
Pairs(ents, files) == ZipLen(ents, files)

SubjectOrDefault(entity) ==
    [ok |-> TRUE,
     sub_num |-> IF "subject" \in DOMAIN entity THEN entity["subject"]
                 ELSE "unknown"]

\* line 178: entity['subject'], a KeyError when the key is missing
SubjectOf(entity) ==
    IF "subject" \in DOMAIN entity
    THEN [ok |-> TRUE, sub_num |-> entity["subject"]]
    ELSE [ok |-> FALSE, sub_num |-> "-"]

\* ---------------------------------------------------- BIDSDataSink actions
\* lines 173-176
SinkStart ==
    /\ pc = "sink_start"
    /\ dirs' = makedirs(dirs, base_directory)
    /\ out_files' = <<>>
    /\ pc' = "sink_loop"
    /\ UNCHANGED <<in_file, in_entities, fs, copyLog, pipeline_name, ret, err>>
    /\ UNCHANGED grabVars

\* lines 177-184: one iteration of the loop
CopyOne ==
    /\ pc = "sink_loop"
    /\ Len(copyLog) < Pairs(in_entities, in_file)
    /\ LET i == Len(copyLog) + 1
           entity == in_entities[i]
           sub == SubjectOf(entity)
       IN  IF ~sub.ok
           THEN /\ err' = [type |-> "KeyError", arg |-> <<i>>]
                /\ pc' = "failed"
                /\ UNCHANGED <<fs, dirs, out_files, copyLog>>
           ELSE LET path == SubjectDir(base_directory, sub.sub_num)
                    out_fname == OutFname(path, in_file[i], pipeline_name)
                IN  /\ dirs' = makedirs(dirs, path)
                    /\ fs' = copyfile(fs, in_file[i], out_fname)
                    /\ out_files' = Append(out_files, out_fname)
                    /\ copyLog' = Append(copyLog, i)
                    /\ UNCHANGED <<pc, err>>
    /\ UNCHANGED <<in_file, in_entities, pipeline_name, ret>>
    /\ UNCHANGED grabVars

\* line 185
ListOutputsReturn ==
    /\ pc = "sink_loop"
    /\ Len(copyLog) >= Pairs(in_entities, in_file)
    /\ ret' = [out_file |-> out_files]
    /\ pc' = "sink_done"
    /\ UNCHANGED <<in_file, in_entities, fs, dirs, out_files, copyLog,
                   pipeline_name, err>>
    /\ UNCHANGED grabVars

GrabIdle ==
    /\ layout = <<>>
    /\ inTask = <<>>
    /\ task = <<>>
    /\ pending = <<>>
    /\ filter_conf = <<>>
    /\ fmri_prep = <<>>
    /\ conf_raw = <<>>
    /\ entities = <<>>
    /\ grabLog = <<>>
    /\ warnings = <<>>
    /\ tr_dict = <<>>
    /\ results = <<>>
    /\ nGet = 0

InitSink ==
    /\ pc = "sink_start"
    /\ err = NoErr
    /\ in_file \in SeqsUpTo(SourcePaths, MaxIn)
    /\ in_file # <<>>
    /\ in_entities \in SeqsUpTo(EntityDicts, MaxEnt)
    /\ pipeline_name \in PipelineNames
    /\ fs \in [SourcePaths -> Contents]
    /\ dirs = {<<"tmp1">>, <<"tmp2">>}
    /\ out_files = <<>>
    /\ copyLog = <<>>
    /\ ret = <<>>
    /\ GrabIdle

NextSink == SinkStart \/ CopyOne \/ ListOutputsReturn

SpecSink == InitSink /\ [][NextSink]_vars

\* ========================================================= BIDSGrab claims
IndexTasks == {f.entities["task"] : f \in Range(layout)}

ResolvedTaskSet == IF inTask = <<>> THEN IndexTasks ELSE Range(inTask)

Resolved == pc # "start" /\ err.type # "ValueError"

Terminal == pc \in {"done", "failed"}

\* the functional files of the dataset that the call iterates
FuncFiles == Get(layout, Scope, filter_fmri(task))

\* the confound query of the documentation: role, stage and the file's own
\* subject, session, datatype and task
OwnFilter(f) ==
    DictUpdate(filter_conf_init, Listify(FilterEntities(f.entities)))

OwnConf(f) == Get(layout, Scope, OwnFilter(f))

HasRepresentative(t) ==
    \E f \in Range(layout) :
        Matches(f, [extension |-> {"nii", "nii.gz"}, suffix |-> {"bold"},
                    desc |-> {"preproc"}, task |-> {t}])

SameRun(i) ==
    LET img == FileAt(layout, results.fmri_prep[i])
        cf == FileAt(layout, results.conf_raw[i])
    IN  \A k \in {"subject", "session", "task"} \cap DOMAIN img.entities :
            /\ k \in DOMAIN cf.entities
            /\ cf.entities[k] = img.entities[k]
            /\ k \in DOMAIN results.entities[i]
            /\ results.entities[i][k] = img.entities[k]

\* C1: when every preprocessed functional file of the dataset has exactly
\* one confound file matching its own subject, session, datatype and task,
\* the call returns three lists of length N whose entries at the same index
\* belong to the same subject, session and task.
C1_AlignedLists ==
    (Resolved /\ pc # "query"
       /\ \A i \in DOMAIN FuncFiles : Len(OwnConf(FuncFiles[i])) = 1)
    => /\ err.type # "FileNotFoundError"
       /\ pc = "done" =>
            /\ Len(results.fmri_prep) = Len(FuncFiles)
            /\ Len(results.conf_raw) = Len(FuncFiles)
            /\ Len(results.entities) = Len(FuncFiles)
            /\ \A i \in DOMAIN FuncFiles :
                   results.fmri_prep[i] = FuncFiles[i].path /\ SameRun(i)

\* C2: when some functional file of the query has no matching confound
\* file, the call fails with FileNotFoundError naming a functional file
\* that has no matching confound file, and no output is set.
C2_NamesFileWithoutConfound ==
    (Resolved /\ Terminal
       /\ \E i \in DOMAIN FuncFiles : OwnConf(FuncFiles[i]) = <<>>)
    => /\ pc = "failed"
       /\ err.type = "FileNotFoundError"
       /\ OwnConf(FileAt(layout, err.arg[1])) = <<>>
       /\ DOMAIN results = {}

C4_TRPerTask ==
    pc = "done" =>
        /\ DOMAIN results.tr_dict = ResolvedTaskSet
        /\ \A t \in ResolvedTaskSet :
               \E f \in Range(layout) :
                   /\ Matches(f, [suffix |-> {"bold"}, desc |-> {"preproc"},
                                  task |-> {t}])
                   /\ f.tr = results.tr_dict[t]

C4_TwoTasksTwoTRs ==
    /\ pc = "done"
    /\ DOMAIN results.tr_dict = TaskNames
    /\ results.tr_dict["rest"] # results.tr_dict["nback"]

\* C7: every confound query is filtered by role, stage and exactly the
\* subject, session, datatype and task entities of the functional file it
\* is issued for.
C7_OwnEntitiesOnly ==
    \A i \in DOMAIN grabLog :
        grabLog[i].filter = OwnFilter(FileAt(layout, grabLog[i].file))

\* C8: without a task input the resolved tasks are all tasks of the index;
\* with a task input the first task missing from the index aborts the call
\* with ValueError before any file query and without outputs, and when none
\* is missing the resolved list is the supplied list.
C8_TaskResolution ==
    pc # "start" =>
        IF inTask = <<>>
        THEN /\ err.type # "ValueError"
             /\ Range(task) = IndexTasks
             /\ Len(task) = Cardinality(IndexTasks)
        ELSE IF \E i \in DOMAIN inTask : inTask[i] \notin IndexTasks
             THEN /\ pc = "failed"
                  /\ err.type = "ValueError"
                  /\ \E i \in DOMAIN inTask :
                         /\ inTask[i] \notin IndexTasks
                         /\ \A j \in 1..(i - 1) : inTask[j] \in IndexTasks
                         /\ err.arg = <<inTask[i]>>
                  /\ nGet = 0
                  /\ grabLog = <<>>
                  /\ DOMAIN results = {}
             ELSE /\ err.type # "ValueError"
                  /\ task = inTask

C8_SecondTaskAbsent ==
    /\ pc = "failed"
    /\ err.type = "ValueError"
    /\ Len(inTask) = 2
    /\ inTask[1] \in IndexTasks
    /\ err.arg = <<inTask[2]>>

\* C10 (as claimed): after a successful task resolution every resolved task
\* has a representative preprocessed functional file, and no task is left
\* out of tr_dict.
C10_AlwaysRepresentative ==
    /\ Resolved => \A t \in Range(task) : HasRepresentative(t)
    /\ pc = "done" => Range(task) \subseteq DOMAIN results.tr_dict

\* C10 (amended): a resolved task may have no representative file; the call
\* then fails with IndexError at the first such task and sets no output,
\* and a call that succeeds has a TR for every resolved task.
C10_FailsWithoutRepresentative ==
    /\ pc \in {"tr_done", "done"} =>
           \A t \in Range(task) : HasRepresentative(t) /\ t \in DOMAIN tr_dict
    /\ pc = "done" => Range(task) \subseteq DOMAIN results.tr_dict
    /\ (pc = "failed" /\ err.type = "IndexError") =>
           /\ \E i \in DOMAIN task :
                  /\ err.arg = <<task[i]>>
                  /\ ~HasRepresentative(task[i])
                  /\ \A j \in 1..(i - 1) : HasRepresentative(task[j])
           /\ DOMAIN results = {}
    /\ (Resolved /\ Terminal /\ err.type # "FileNotFoundError"
          /\ \E t \in Range(task) : ~HasRepresentative(t))
       => (pc = "failed" /\ err.type = "IndexError")

C10_TaskWithoutRepresentative ==
    /\ pc = "failed"
    /\ err.type = "IndexError"
    /\ fmri_prep # <<>>

\* ===================================================== BIDSDataSink claims
ExpectedDest(i) ==
    MkPath(base_directory
             \o <<"derivatives", "fmridenoise",
                  <<"sub-", in_entities[i]["subject"]>>>>,
           split_filename(in_file[i]).fname
             \o <<"_pipeline-", pipeline_name>>
             \o split_filename(in_file[i]).ext)

\* C5 (as claimed): M input files give exactly M destination paths in input
\* order, whatever the length of the entities list.
C5_OnePathPerFile ==
    pc = "sink_done" =>
        /\ Len(ret.out_file) = Len(in_file)
        /\ \A i \in DOMAIN in_file : ret.out_file[i] = ExpectedDest(i)

\* C5 (amended): the call returns one destination path per (entity, file)
\* pair, that is min(M, length of entities) paths, in input order, the i-th
\* being <base>/derivatives/fmridenoise/sub-<subject>/<basename>_pipeline-
\* <pipeline_name><extension>.
C5_OnePathPerPair ==
    pc = "sink_done" =>
        /\ Len(ret.out_file) = Min(Len(in_file), Len(in_entities))
        /\ \A i \in DOMAIN ret.out_file : ret.out_file[i] = ExpectedDest(i)

C5_FewerEntitiesThanFiles ==
    /\ pc = "sink_done"
    /\ Len(in_entities) < Len(in_file)
    /\ Len(ret.out_file) >= 1

\* C6 (as claimed): after a successful call every destination file has the
\* content of the input file at the same index.
C6_ByteIdentical ==
    pc = "sink_done" =>
        \A i \in DOMAIN ret.out_file : fs[ret.out_file[i]] = fs[in_file[i]]

LastWriter(i) ==
    CHOOSE j \in DOMAIN ret.out_file :
        /\ ret.out_file[j] = ret.out_file[i]
        /\ \A k \in DOMAIN ret.out_file :
               ret.out_file[k] = ret.out_file[i] => k <= j

\* C6 (amended): after a successful call every destination file has the
\* content of the last input file that was given that destination path; it
\* is the content of the input at the same index unless a later input has
\* the same basename, extension and subject.
C6_LastWriterWins ==
    pc = "sink_done" =>
        \A i \in DOMAIN ret.out_file :
            fs[ret.out_file[i]] = fs[in_file[LastWriter(i)]]

C6_SameDestination ==
    /\ pc = "sink_done"
    /\ \E i, j \in DOMAIN ret.out_file :
           /\ i < j
           /\ ret.out_file[i] = ret.out_file[j]
           /\ in_file[i].dir # in_file[j].dir
           /\ fs[in_file[i]] # fs[in_file[j]]

FirstNoSubject ==
    LET bad == {i \in 1..Min(Len(in_file), Len(in_entities)) :
                   "subject" \notin DOMAIN in_entities[i]}
    IN  IF bad = {} THEN 0 ELSE CHOOSE i \in bad : \A j \in bad : i <= j

\* C9: the first entity mapping without a subject aborts the call with a
\* missing-key error: nothing is returned, no later file is copied and no
\* later directory is created, and the earlier files stay copied.
C9_AbortsOnFirstFailure ==
    /\ pc = "sink_done" => FirstNoSubject = 0
    /\ (pc = "sink_loop" /\ FirstNoSubject # 0) =>
           Len(copyLog) < FirstNoSubject
    /\ pc = "failed" =>
        /\ err = [type |-> "KeyError", arg |-> <<FirstNoSubject>>]
        /\ FirstNoSubject # 0
        /\ DOMAIN ret = {}
        /\ copyLog = [k \in 1..(FirstNoSubject - 1) |-> k]
        /\ \A k \in 1..(FirstNoSubject - 1) : ExpectedDest(k) \in DOMAIN fs
        /\ DOMAIN fs = SourcePaths
               \cup {ExpectedDest(k) : k \in 1..(FirstNoSubject - 1)}
        /\ dirs = {<<"tmp1">>, <<"tmp2">>, base_directory}
               \cup UNION {makedirs({}, ExpectedDest(k).dir) :
                              k \in 1..(FirstNoSubject - 1)}

C9_FailsInTheMiddle ==
    /\ pc = "failed"
    /\ err = [type |-> "KeyError", arg |-> <<2>>]
    /\ Len(in_file) = 3
    /\ Len(in_entities) = 3
====
